---- MODULE Spec2Model ----
(***************************************************************************)
(* A model of the PowerDNS Recursor input plugin                           *)
(* (plugins/inputs/powerdns_recursor): the response decoder, the native    *)
(* integer codec, the datagram driver gatherServer, the stream driver      *)
(* gatherFromV3Server and the Gather loop over the configured sockets.     *)
(*                                                                         *)
(* Bytes are integers 0..255 and a Go string or []byte is a sequence of    *)
(* bytes.  A Go map[string]interface{} is a function from keys (byte       *)
(* sequences) to integers.                                                 *)
(***************************************************************************)
EXTENDS Integers, Sequences, FiniteSets, TLC

VARIABLES
  UnixSockets,         \* PowerdnsRecursor.UnixSockets: the configured targets
  NewControlProtocol,  \* PowerdnsRecursor.NewControlProtocol
  uintSizeInBytes,     \* strconv.IntSize / 8 of the build: 4 or 8
  littleEndian,        \* the byte order getEndianness finds on the host
  pc,                  \* per caller: the statement it is at
  idx,                 \* per caller: the index of Gather's loop
  loc,                 \* per caller: the locals of the running driver call
  acc,                 \* per caller: what the telegraf.Accumulator received
  ret,                 \* per caller: the value the top-level call returned
  fs,                  \* the socket directory: path -> socket bound there
  conns,               \* the sockets that are open
  dIn,                 \* decoder run: the lines the input text is made of
  dOut,                \* decoder run: the result of parseResponse
  cIn,                 \* codec run: the value to send
  cConn,               \* codec run: the bytes in the connection
  cOut                 \* codec run: the result of readNativeUIntFromConn

vars == <<UnixSockets, NewControlProtocol, uintSizeInBytes, littleEndian,
          pc, idx, loc, acc, ret, fs, conns, dIn, dOut, cIn, cConn, cOut>>

platformVars == <<uintSizeInBytes, littleEndian>>
driverVars == <<UnixSockets, NewControlProtocol, pc, idx, loc, acc, ret, fs, conns>>
decoderVars == <<dIn, dOut>>
codecVars == <<cIn, cConn, cOut>>

(***************************************************************************)
(* Bounds of the model                                                     *)
(***************************************************************************)

\* the longest list of configured sockets
MaxTargets == 3
\* the number of values rand.Int63 draws from
MaxRand == 2
\* the number of concurrent callers in the concurrent specification
NProcs == 2
\* the most terminated lines in a decoder input
MaxLines == 2
\* the largest value of the dense range of lengths given to the codec
MaxLength == 40
\* the capacity of the reply buffer of gatherServer, which is 16384 bytes in
\* the source; the replies of the model are scaled to it
BufLen == 8

(***************************************************************************)
(* Bytes and strings                                                       *)
(***************************************************************************)

\* "\t", the field separator of parseResponse
Tab == 9
\* "\n", the line separator of parseResponse
Newline == 10

\* the bytes of "a", "b", "1", "2", "-", "+" used to build inputs
ChA == <<97>>
ChB == <<98>>
Ch1 == <<49>>
Ch2 == <<50>>
ChMinus == <<45>>
ChPlus == <<43>>

\* strings.Split(s, sep) for a one-byte separator: the pieces between the
\* separators, one more piece than there are separators
Split(s, sep) ==
  LET at == {i \in 1..Len(s) : s[i] = sep}
      \* the place of the k-th separator; 0 and Len(s) + 1 bound the text
      cut(k) == IF k = 0 THEN 0
                ELSE IF k > Cardinality(at) THEN Len(s) + 1
                ELSE CHOOSE i \in at : Cardinality({j \in at : j < i}) = k - 1
  IN  [k \in 1..(Cardinality(at) + 1) |-> SubSeq(s, cut(k - 1) + 1, cut(k) - 1)]

\* byte 48..57
IsDigit(b) == b >= 48 /\ b <= 57

\* the decimal digits of 2^63 - 1 and of 2^63, the bounds of ParseInt(.., 64)
MaxInt64Digits == <<9,2,2,3,3,7,2,0,3,6,8,5,4,7,7,5,8,0,7>>
MinInt64Digits == <<9,2,2,3,3,7,2,0,3,6,8,5,4,7,7,5,8,0,8>>

RECURSIVE StripZeros(_)
StripZeros(d) ==
  IF d # <<>> /\ Head(d) = 48 THEN StripZeros(Tail(d)) ELSE d

\* digit strings of equal length: d (bytes) is greater than lim (digits)
RECURSIVE DigitsGreater(_, _)
DigitsGreater(d, lim) ==
  IF d = <<>> THEN FALSE
  ELSE IF Head(d) - 48 # Head(lim) THEN Head(d) - 48 > Head(lim)
  ELSE DigitsGreater(Tail(d), Tail(lim))

\* the magnitude d does not fit below the limit lim
OutOfRange(d, lim) ==
  LET sig == StripZeros(d)
  IN  \/ Len(sig) > Len(lim)
      \/ Len(sig) = Len(lim) /\ DigitsGreater(sig, lim)

RECURSIVE DigitsValue(_, _)
DigitsValue(d, out) ==
  IF d = <<>> THEN out ELSE DigitsValue(Tail(d), out * 10 + (Head(d) - 48))

\* strconv.ParseInt(s, 10, 64): an optional sign, then one or more decimal
\* digits and nothing else, within the signed 64-bit range
ParseInt(s) ==
  LET neg    == s # <<>> /\ Head(s) = 45
      signed == s # <<>> /\ (Head(s) = 45 \/ Head(s) = 43)
      d      == IF signed THEN Tail(s) ELSE s
  IN  IF s = <<>> \/ d = <<>> \/ \E i \in 1..Len(d) : ~IsDigit(d[i])
      THEN [ok |-> FALSE, val |-> 0]
      ELSE IF OutOfRange(d, IF neg THEN MinInt64Digits ELSE MaxInt64Digits)
      THEN [ok |-> FALSE, val |-> 0]
      ELSE [ok |-> TRUE,
            val |-> IF neg THEN 0 - DigitsValue(d, 0) ELSE DigitsValue(d, 0)]

\* values[k] = v on a Go map
MapPut(m, k, v) == [x \in (DOMAIN m) \cup {k} |-> IF x = k THEN v ELSE m[x]]

EmptyMap == [x \in {} |-> 0]

(***************************************************************************)
(* The response decoder                                                    *)
(***************************************************************************)

\* the decoder's state: the map built so far and the lines it has logged
NoValues == [values |-> EmptyMap, diags |-> <<>>]

\* the iteration as it would be if a name kept its first value
MetricStepFirstWins(out, metric, logs) ==
  LET m == Split(metric, Tab)
      r == IF Len(m) < 2 THEN [ok |-> FALSE, val |-> 0] ELSE ParseInt(m[2])
  IN  IF Len(m) < 2 THEN out
      ELSE IF ~r.ok
      THEN IF logs THEN [out EXCEPT !.diags = Append(out.diags, metric)] ELSE out
      ELSE IF m[1] \in DOMAIN out.values THEN out
      ELSE [out EXCEPT !.values = MapPut(out.values, m[1], r.val)]

\* one iteration of the loop of parseResponse over a line `metric`;
\* logs says whether the copy reports a line whose integer does not parse
MetricStep(out, metric, logs) ==
  LET m == Split(metric, Tab)
      r == IF Len(m) < 2 THEN [ok |-> FALSE, val |-> 0] ELSE ParseInt(m[2])
  IN  IF Len(m) < 2 THEN out
      ELSE IF ~r.ok
      THEN IF logs THEN [out EXCEPT !.diags = Append(out.diags, metric)] ELSE out
      ELSE [out EXCEPT !.values = MapPut(out.values, m[1], r.val)]

\* the loop `for _, metric := range s[:len(s)-1]`: every piece but the last
RECURSIVE MetricLoop(_, _, _, _)
MetricLoop(s, i, out, logs) ==
  IF i > Len(s) - 1 THEN out
  ELSE MetricLoop(s, i + 1, MetricStep(out, s[i], logs), logs)

\* parseResponse of powerdns_recursor.go, which logs every line whose
\* integer does not parse
parseResponse(metrics) == MetricLoop(Split(metrics, Newline), 1, NoValues, TRUE)

\* parseResponse of protocol_commons.go, which skips such a line silently
parseResponseCommons(metrics) ==
  MetricLoop(Split(metrics, Newline), 1, NoValues, FALSE)

(***************************************************************************)
(* The native integer codec                                                *)
(***************************************************************************)

RECURSIVE Reverse(_)
Reverse(b) == IF b = <<>> THEN <<>> ELSE Append(Reverse(Tail(b)), Head(b))

\* the k low bytes of v, least significant first
RECURSIVE LowBytes(_, _)
LowBytes(v, k) ==
  IF k = 0 THEN <<>> ELSE <<v % 256>> \o LowBytes(v \div 256, k - 1)

\* the number whose bytes, least significant first, are b
RECURSIVE LowValue(_)
LowValue(b) == IF b = <<>> THEN 0 ELSE Head(b) + 256 * LowValue(Tail(b))

\* getEndianness: store uint16(1) in the host's order and look at byte 0
getEndianness ==
  LET buf == IF littleEndian THEN <<1, 0>> ELSE <<0, 1>>
  IN  IF buf[1] = 1 THEN "LittleEndian" ELSE "BigEndian"

\* PutUint with the two byte orders exchanged
PutUintSwapped(order, size, v) ==
  IF order = "LittleEndian" THEN Reverse(LowBytes(v, size)) ELSE LowBytes(v, size)

\* binary.ByteOrder.PutUint32 / PutUint64 on a buffer of `size` bytes
PutUint(order, size, v) ==
  IF order = "LittleEndian" THEN LowBytes(v, size) ELSE Reverse(LowBytes(v, size))

\* binary.ByteOrder.Uint32 / Uint64
Uint(order, b) ==
  IF order = "LittleEndian" THEN LowValue(b) ELSE LowValue(Reverse(b))

\* writeNativeUIntToConn: the bytes it writes, or the error it returns
writeNativeUInt(value) ==
  IF uintSizeInBytes = 4 \/ uintSizeInBytes = 8
  THEN [err |-> "", bytes |-> PutUint(getEndianness, uintSizeInBytes, value)]
  ELSE [err |-> "unsupported system configuration", bytes |-> <<>>]

\* readNativeUIntFromConn after conn.Read delivered the bytes got (the
\* read error is handled by the caller of this operator)
readNativeUInt(got) ==
  IF Len(got) # uintSizeInBytes
  THEN [err |-> "did not read enough data for native uint", value |-> 0]
  ELSE IF uintSizeInBytes = 4 \/ uintSizeInBytes = 8
  THEN [err |-> "", value |-> Uint(getEndianness, got)]
  ELSE [err |-> "unsupported system configuration", value |-> 0]

Take(b, n) == SubSeq(b, 1, n)
Drop(b, n) == SubSeq(b, n + 1, Len(b))
Min(x, y) == IF x < y THEN x ELSE y

(***************************************************************************)
(* Codec runs: a length is written to a connection and read back           *)
(***************************************************************************)

\* lengths given to the codec: a dense range and the byte boundaries
CodecValues ==
  (0..MaxLength) \cup {255, 256, 257, 65535, 65536, 16777215, 16777216, 2147483647}

CodecIdle ==
  /\ cIn = 0
  /\ cConn = [sent |-> <<>>, unread |-> <<>>, written |-> FALSE]
  /\ cOut = [done |-> FALSE, n |-> 0, err |-> "", value |-> 0]

InitPlatform ==
  /\ uintSizeInBytes \in {4, 8}
  /\ littleEndian \in BOOLEAN

InitCodec ==
  /\ cIn \in CodecValues
  /\ cConn = [sent |-> <<>>, unread |-> <<>>, written |-> FALSE]
  /\ cOut = [done |-> FALSE, n |-> 0, err |-> "", value |-> 0]

\* writeNativeUIntToConn(conn, cIn)
CodecWrite ==
  /\ ~cConn.written
  /\ LET w == writeNativeUInt(cIn)
     IN  cConn' = [sent |-> w.bytes, unread |-> w.bytes, written |-> TRUE]
  /\ UNCHANGED <<cIn, cOut, platformVars, driverVars, decoderVars>>

\* readNativeUIntFromConn(conn): one conn.Read into a buffer of
\* uintSizeInBytes bytes, which delivers n of the unread bytes
CodecRead ==
  /\ cConn.written /\ ~cOut.done
  /\ \E n \in 1..Min(uintSizeInBytes, Len(cConn.unread)) :
       LET r == readNativeUInt(Take(cConn.unread, n))
       IN  /\ cOut' = [done |-> TRUE, n |-> n, err |-> r.err, value |-> r.value]
           /\ cConn' = [cConn EXCEPT !.unread = Drop(cConn.unread, n)]
  /\ UNCHANGED <<cIn, platformVars, driverVars, decoderVars>>

NextCodec == CodecWrite \/ CodecRead

(***************************************************************************)
(* The drivers and Gather: state                                           *)
(***************************************************************************)

\* "/var/run/pdns_recursor.controlsocket", queried when no socket is
\* configured; configured sockets are 1, 2, ...
DefaultSocket == 0

\* no socket (a path with no file, a call with no connection)
NoSocket == <<0, 0>>

\* the paths rand.Int63 can give to the receive socket
Paths == 0..(MaxRand - 1)

\* "get-all\n" and "get-all"
GetAllNewline == <<103, 101, 116, 45, 97, 108, 108, 10>>
GetAll == <<103, 101, 116, 45, 97, 108, 108>>

\* one operation on the socket, as the peer or the kernel sees it
Wire(op, net, bytes, cap, n, ok) ==
  [op |-> op, net |-> net, bytes |-> bytes, cap |-> cap, n |-> n, ok |-> ok]

\* the locals of a driver call
NoCall ==
  [driver |-> "none", caller |-> "none", address |-> DefaultSocket,
   newProtocol |-> FALSE, recvSocket |-> 0, conn |-> NoSocket,
   deferRemove |-> FALSE, deferClose |-> FALSE, err |-> "",
   wire |-> <<>>, stream |-> <<>>, responseLength |-> 0, n |-> 0]

\* a call of gatherServer(address, newProtocol, acc) begins
LegacyCall(caller, address, newProtocol) ==
  [NoCall EXCEPT !.driver = "legacy", !.caller = caller, !.address = address,
                 !.newProtocol = newProtocol]

\* a call of gatherFromV3Server(address, acc) begins
V3Call(caller, address) ==
  [NoCall EXCEPT !.driver = "v3", !.caller = caller, !.address = address]

\* acc.AddFields("powerdns_recursor", fields, {"server": address}) and
\* acc.AddError(err); call is the index of Gather's loop that made the event
FieldsEvent(call, address, fields) ==
  [kind |-> "fields", call |-> call, server |-> address, fields |-> fields, err |-> ""]
ErrorEvent(call, err) ==
  [kind |-> "error", call |-> call, server |-> 0 - 1, fields |-> EmptyMap, err |-> err]

\* the text of a reply: "a\t1\n", "b\t2\n", "a\t2\n"
LineA1 == ChA \o <<Tab>> \o Ch1 \o <<Newline>>
LineB2 == ChB \o <<Tab>> \o Ch2 \o <<Newline>>
LineA2 == ChA \o <<Tab>> \o Ch2 \o <<Newline>>

\* the datagrams the peer of gatherServer may send: an empty one, one or two
\* lines, an unterminated last line, three lines, and "a\t1\nb\t2222\n",
\* whose second line does not fit the buffer
LegacyReplies ==
  { <<>>, LineA1, LineA1 \o LineB2, LineA1 \o ChB \o <<Tab>> \o Ch2,
    LineA1 \o LineB2 \o LineA2,
    LineA1 \o ChB \o <<Tab>> \o Ch2 \o Ch2 \o Ch2 \o Ch2 \o <<Newline>> }

\* the datagrams the peer may send as a status
StatusReplies == { <<>>, <<0, 0, 0, 0>> }

\* everything the peer of gatherFromV3Server may send before it stops:
\* nothing, half a status, a status and half a length, a declared length of
\* 0, a complete response, a body shorter than declared, a longer response
V3Header(len) == <<0, 0, 0, 0>> \o PutUint(getEndianness, uintSizeInBytes, len)
V3Responses ==
  { <<>>, <<0, 0>>, Take(V3Header(4), 6), V3Header(0),
    V3Header(4) \o LineA1, V3Header(4) \o Take(LineA1, 2),
    V3Header(8) \o LineA1 \o LineB2 }

\* k zero bytes
RECURSIVE Zeros(_)
Zeros(k) == IF k <= 0 THEN <<>> ELSE <<0>> \o Zeros(k - 1)

\* the read as it would be if the buffer held the whole datagram
ReadIntoWhole(cap, d) ==
  [n |-> Min(cap, Len(d)), buf |-> d \o Zeros(cap - Len(d))]

\* buf after a datagram was read into make([]byte, cap): the first cap
\* bytes of the datagram, then zero bytes
ReadInto(cap, d) ==
  LET n == Min(cap, Len(d))
  IN  [n |-> n, buf |-> Take(d, n) \o Zeros(cap - n)]

\* the check left out
NothingReadNever(n) == FALSE
\* `if n == 0` after conn.Read: nothing was read
NothingRead(n) == n = 0

\* the check left out
EmptyResponseNever(responseLength) == FALSE
\* `if responseLength == 0` of gatherFromV3Server
EmptyResponse(responseLength) == responseLength = 0

\* the check as gatherServer makes it, for an empty read only
IncompleteResponseOnlyEmpty(n, responseLength) == n = 0
\* `if uint(n) != responseLength` of gatherFromV3Server
IncompleteResponse(n, responseLength) == n # responseLength

\* the callers of the plugin; the ones that do not run stay "off"
Procs == 1..NProcs

InitDrivers(procs, sockets, protocols) ==
  /\ UnixSockets \in sockets
  /\ NewControlProtocol \in protocols
  /\ pc = [p \in Procs |-> IF p \in procs THEN "idle" ELSE "off"]
  /\ idx = [p \in Procs |-> 0]
  /\ loc = [p \in Procs |-> NoCall]
  /\ acc = [p \in Procs |-> <<>>]
  /\ ret = [p \in Procs |-> "pending"]
  /\ fs = [x \in Paths |-> NoSocket]
  /\ conns = {}

\* lists <<1>>, <<1, 2>>, ... of at most n sockets, and the empty list
SocketLists(n) == { [i \in 1..k |-> i] : k \in 0..n }

(***************************************************************************)
(* Gather and gatherServer                                                 *)
(***************************************************************************)

otherVars == <<platformVars, decoderVars, codecVars>>
configVars == <<UnixSockets, NewControlProtocol>>

\* the socket of the call that caller p is running
Sid(p) == <<p, idx[p]>>

\* the driver call of p goes to label next with its locals changed to l
Goto(p, next, l) ==
  /\ pc' = [pc EXCEPT ![p] = next]
  /\ loc' = [loc EXCEPT ![p] = l]

\* the call of p appends w to its wire and leaves with error e
FailWith(p, e, w, retLabel) ==
  Goto(p, retLabel, [loc[p] EXCEPT !.err = e, !.wire = Append(@, w)])

\* Gather: no socket configured, so the default socket is queried and the
\* result of gatherServer is returned; otherwise the loop starts
Gather(p) ==
  /\ pc[p] = "idle"
  /\ IF Len(UnixSockets) = 0
     THEN /\ Goto(p, "gs_start", LegacyCall("default", DefaultSocket, NewControlProtocol))
          /\ idx' = idx
     ELSE /\ Goto(p, "gs_start", LegacyCall("loop", UnixSockets[1], NewControlProtocol))
          /\ idx' = [idx EXCEPT ![p] = 1]
  /\ UNCHANGED <<configVars, acc, ret, fs, conns, otherVars>>

\* the loop as it would be if a failing socket ended it
ReturnedAbort(p, err) ==
  IF loc[p].caller = "loop"
  THEN /\ acc' = [acc EXCEPT ![p] =
                    IF err # "" THEN Append(@, ErrorEvent(idx[p], err)) ELSE @]
       /\ IF idx[p] < Len(UnixSockets) /\ err = ""
          THEN /\ idx' = [idx EXCEPT ![p] = @ + 1]
               /\ Goto(p, "gs_start",
                       LegacyCall("loop", UnixSockets[idx[p] + 1], NewControlProtocol))
               /\ ret' = ret
          ELSE /\ Goto(p, "done", NoCall)
               /\ ret' = [ret EXCEPT ![p] = "nil"]
               /\ idx' = idx
  ELSE /\ Goto(p, "done", NoCall)
       /\ ret' = [ret EXCEPT ![p] = IF err = "" THEN "nil" ELSE err]
       /\ UNCHANGED <<acc, idx>>

\* what the caller of a driver call does with the error it returned:
\* Gather's loop reports it with acc.AddError and goes on to the next
\* socket; the other callers return it
Returned(p, err) ==
  IF loc[p].caller = "loop"
  THEN /\ acc' = [acc EXCEPT ![p] =
                    IF err # "" THEN Append(@, ErrorEvent(idx[p], err)) ELSE @]
       /\ IF idx[p] < Len(UnixSockets)
          THEN /\ idx' = [idx EXCEPT ![p] = @ + 1]
               /\ Goto(p, "gs_start",
                       LegacyCall("loop", UnixSockets[idx[p] + 1], NewControlProtocol))
               /\ ret' = ret
          ELSE /\ Goto(p, "done", NoCall)
               /\ ret' = [ret EXCEPT ![p] = "nil"]
               /\ idx' = idx
  ELSE /\ Goto(p, "done", NoCall)
       /\ ret' = [ret EXCEPT ![p] = IF err = "" THEN "nil" ELSE err]
       /\ UNCHANGED <<acc, idx>>

\* gatherServer, lines 80-98: the name of the receive socket is drawn and
\* its removal is deferred
PickSocket(p) ==
  /\ pc[p] = "gs_start"
  /\ \E randomNumber \in Paths :
       Goto(p, "gs_dial",
            [loc[p] EXCEPT !.recvSocket = randomNumber, !.deferRemove = TRUE])
  /\ UNCHANGED <<configVars, idx, acc, ret, fs, conns, otherVars>>

\* net.DialUnix("unixgram", laddr, raddr): bind the receive socket, which
\* creates its path and fails when the path exists, then connect it to the
\* server's socket; a failed connect leaves the path behind
DialUnix(p) ==
  /\ pc[p] = "gs_dial"
  /\ LET l == loc[p]
         w(ok) == Wire("dial", "unixgram", <<>>, 0, 0, ok)
     IN  \/ /\ FailWith(p, "bind", w(FALSE), "gs_ret")
            /\ UNCHANGED <<fs, conns>>
         \/ /\ fs[l.recvSocket] = NoSocket
            /\ fs' = [fs EXCEPT ![l.recvSocket] = Sid(p)]
            /\ FailWith(p, "connect", w(FALSE), "gs_ret")
            /\ UNCHANGED conns
         \/ /\ fs[l.recvSocket] = NoSocket
            /\ fs' = [fs EXCEPT ![l.recvSocket] = Sid(p)]
            /\ conns' = conns \cup {Sid(p)}
            /\ Goto(p, "gs_chmod",
                    [l EXCEPT !.conn = Sid(p), !.wire = Append(@, w(TRUE))])
  /\ UNCHANGED <<configVars, idx, acc, ret, otherVars>>

\* os.Chmod(recvSocket, mode): fails when the path is gone, and may fail
\* otherwise; the connection's Close is not deferred yet
Chmod(p) ==
  /\ pc[p] = "gs_chmod"
  /\ LET l == loc[p]
     IN  \/ Goto(p, "gs_ret", [l EXCEPT !.err = "chmod"])
         \/ /\ fs[l.recvSocket] # NoSocket
            /\ Goto(p, "gs_deadline", l)
  /\ UNCHANGED <<configVars, idx, acc, ret, fs, conns, otherVars>>

\* defer conn.Close(), then conn.SetDeadline(now + defaultTimeout)
SetDeadline(p) ==
  /\ pc[p] = "gs_deadline"
  /\ LET l == [loc[p] EXCEPT !.deferClose = TRUE]
         w(ok) == Wire("deadline", "unixgram", <<>>, 0, 0, ok)
     IN  \/ Goto(p, "gs_ret", [l EXCEPT !.err = "deadline", !.wire = Append(@, w(FALSE))])
         \/ Goto(p, IF l.newProtocol THEN "gs_wstatus" ELSE "gs_wcmd",
                 [l EXCEPT !.wire = Append(@, w(TRUE))])
  /\ UNCHANGED <<configVars, idx, acc, ret, fs, conns, otherVars>>

\* newProtocol only: conn.Write([]byte{0, 0, 0, 0})
WriteStatus(p) ==
  /\ pc[p] = "gs_wstatus"
  /\ LET l == loc[p]
         w(ok) == Wire("write", "unixgram", <<0, 0, 0, 0>>, 0, 0, ok)
     IN  \/ Goto(p, "gs_ret", [l EXCEPT !.err = "write", !.wire = Append(@, w(FALSE))])
         \/ Goto(p, "gs_wcmd", [l EXCEPT !.wire = Append(@, w(TRUE))])
  /\ UNCHANGED <<configVars, idx, acc, ret, fs, conns, otherVars>>

\* the write as it would be if the command had no line break in either
\* protocol
WriteCommandBare(p) ==
  /\ pc[p] = "gs_wcmd"
  /\ LET l == loc[p]
         w(ok) == Wire("write", "unixgram", GetAll, 0, 0, ok)
     IN  \/ Goto(p, "gs_ret", [l EXCEPT !.err = "write", !.wire = Append(@, w(FALSE))])
         \/ Goto(p, IF l.newProtocol THEN "gs_rstatus" ELSE "gs_rdata",
                 [l EXCEPT !.wire = Append(@, w(TRUE))])
  /\ UNCHANGED <<configVars, idx, acc, ret, fs, conns, otherVars>>

\* conn.Write([]byte(command)): "get-all\n", or "get-all" with newProtocol
WriteCommand(p) ==
  /\ pc[p] = "gs_wcmd"
  /\ LET l == loc[p]
         command == IF l.newProtocol THEN GetAll ELSE GetAllNewline
         w(ok) == Wire("write", "unixgram", command, 0, 0, ok)
     IN  \/ Goto(p, "gs_ret", [l EXCEPT !.err = "write", !.wire = Append(@, w(FALSE))])
         \/ Goto(p, IF l.newProtocol THEN "gs_rstatus" ELSE "gs_rdata",
                 [l EXCEPT !.wire = Append(@, w(TRUE))])
  /\ UNCHANGED <<configVars, idx, acc, ret, fs, conns, otherVars>>

\* newProtocol only: conn.Read(status) with 4 bytes of room; the read fails,
\* or delivers the first bytes of one datagram
ReadStatus(p) ==
  /\ pc[p] = "gs_rstatus"
  /\ LET l == loc[p]
         w(got, ok) == Wire("read", "unixgram", got, 4, Len(got), ok)
     IN  \/ Goto(p, "gs_ret", [l EXCEPT !.err = "read", !.wire = Append(@, w(<<>>, FALSE))])
         \/ \E d \in StatusReplies :
              LET r == ReadInto(4, d)
                  m == [l EXCEPT !.wire = Append(@, w(Take(r.buf, r.n), TRUE))]
              IN  IF NothingRead(r.n)
                  THEN Goto(p, "gs_ret", [m EXCEPT !.err = "no status code received"])
                  ELSE Goto(p, "gs_rdata", m)
  /\ UNCHANGED <<configVars, idx, acc, ret, fs, conns, otherVars>>

\* conn.Read(buf) with BufLen bytes of room, then lines 152-164: a read of
\* no byte is an error; otherwise the whole buffer is decoded and the map
\* is given to the accumulator with the tag server=address
ReadData(p) ==
  /\ pc[p] = "gs_rdata"
  /\ LET l == loc[p]
         w(got, ok) == Wire("read", "unixgram", got, BufLen, Len(got), ok)
     IN  \/ /\ Goto(p, "gs_ret", [l EXCEPT !.err = "read", !.wire = Append(@, w(<<>>, FALSE))])
            /\ acc' = acc
         \/ \E d \in LegacyReplies :
              LET r == ReadInto(BufLen, d)
                  m == [l EXCEPT !.n = r.n, !.wire = Append(@, w(Take(r.buf, r.n), TRUE))]
              IN  IF NothingRead(r.n)
                  THEN /\ Goto(p, "gs_ret", [m EXCEPT !.err = "no data received"])
                       /\ acc' = acc
                  ELSE /\ Goto(p, "gs_close", m)
                       /\ acc' = [acc EXCEPT ![p] =
                            Append(@, FieldsEvent(idx[p], l.address,
                                                  parseResponse(r.buf).values))]
  /\ UNCHANGED <<configVars, idx, ret, fs, conns, otherVars>>

\* return conn.Close(): the connection is closed and the result of Close,
\* nil or an error, is the result of the call
Close(p) ==
  /\ pc[p] = "gs_close"
  /\ conns' = conns \ {loc[p].conn}
  /\ \E e \in {"", "close"} : Goto(p, "gs_ret", [loc[p] EXCEPT !.err = e])
  /\ UNCHANGED <<configVars, idx, acc, ret, fs, otherVars>>

\* the deferred calls as they would be if os.Remove were deferred where
\* conn.Close is, after the chmod
RunDefersLate(l) ==
  /\ conns' = IF l.deferClose THEN conns \ {l.conn} ELSE conns
  /\ fs' = IF l.deferClose THEN [fs EXCEPT ![l.recvSocket] = NoSocket] ELSE fs

\* the deferred calls of a driver run, last deferred first: conn.Close()
\* if it was deferred, then os.Remove(recvSocket), which removes whatever
\* file the path names
RunDefers(l) ==
  /\ conns' = IF l.deferClose THEN conns \ {l.conn} ELSE conns
  /\ fs' = IF l.deferRemove THEN [fs EXCEPT ![l.recvSocket] = NoSocket] ELSE fs

\* gatherServer returns to its caller
ReturnLegacy(p) ==
  /\ pc[p] = "gs_ret"
  /\ RunDefers(loc[p])
  /\ Returned(p, loc[p].err)
  /\ UNCHANGED <<configVars, otherVars>>

(***************************************************************************)
(* gatherFromV3Server                                                      *)
(***************************************************************************)

\* the sockets a direct call of gatherFromV3Server may be given
V3Addresses == {DefaultSocket}

\* gatherFromV3Server(address, acc) is called
CallV3(p) ==
  /\ pc[p] = "idle"
  /\ \E address \in V3Addresses : Goto(p, "v3_dial", V3Call("direct", address))
  /\ UNCHANGED <<configVars, idx, acc, ret, fs, conns, otherVars>>

\* net.Dial("unix", address), then defer conn.Close(); the peer that
\* accepts decides what it will send
V3Dial(p) ==
  /\ pc[p] = "v3_dial"
  /\ LET l == loc[p]
         w(ok) == Wire("dial", "unix", <<>>, 0, 0, ok)
     IN  \/ /\ FailWith(p, "connect", w(FALSE), "v3_ret")
            /\ conns' = conns
         \/ \E resp \in V3Responses :
              /\ conns' = conns \cup {Sid(p)}
              /\ Goto(p, "v3_deadline",
                      [l EXCEPT !.conn = Sid(p), !.deferClose = TRUE, !.stream = resp,
                                !.wire = Append(@, w(TRUE))])
  /\ UNCHANGED <<configVars, idx, acc, ret, fs, otherVars>>

\* conn.SetDeadline(now + defaultTimeout)
V3SetDeadline(p) ==
  /\ pc[p] = "v3_deadline"
  /\ LET w(ok) == Wire("deadline", "unix", <<>>, 0, 0, ok)
     IN  \/ FailWith(p, "deadline", w(FALSE), "v3_ret")
         \/ Goto(p, "v3_wstatus", [loc[p] EXCEPT !.wire = Append(@, w(TRUE))])
  /\ UNCHANGED <<configVars, idx, acc, ret, fs, conns, otherVars>>

\* the write as it would be if its error were dropped: the call goes on
\* to the next write after a failed one
V3WriteStatusUnchecked(p) ==
  /\ pc[p] = "v3_wstatus"
  /\ LET w(ok) == Wire("write", "unix", <<0, 0, 0, 0>>, 0, 0, ok)
     IN  \E ok \in BOOLEAN :
           Goto(p, "v3_wlen", [loc[p] EXCEPT !.wire = Append(@, w(ok))])
  /\ UNCHANGED <<configVars, idx, acc, ret, fs, conns, otherVars>>

\* conn.Write([]byte{0, 0, 0, 0})
V3WriteStatus(p) ==
  /\ pc[p] = "v3_wstatus"
  /\ LET w(ok) == Wire("write", "unix", <<0, 0, 0, 0>>, 0, 0, ok)
     IN  \/ FailWith(p, "write", w(FALSE), "v3_ret")
         \/ Goto(p, "v3_wlen", [loc[p] EXCEPT !.wire = Append(@, w(TRUE))])
  /\ UNCHANGED <<configVars, idx, acc, ret, fs, conns, otherVars>>

\* writeNativeUIntToConn(conn, uint(len(command)))
V3WriteLength(p) ==
  /\ pc[p] = "v3_wlen"
  /\ LET enc == writeNativeUInt(Len(GetAll))
         w(ok) == Wire("write", "unix", enc.bytes, 0, 0, ok)
     IN  IF enc.err # ""
         THEN Goto(p, "v3_ret", [loc[p] EXCEPT !.err = enc.err])
         ELSE \/ FailWith(p, "write", w(FALSE), "v3_ret")
              \/ Goto(p, "v3_wcmd", [loc[p] EXCEPT !.wire = Append(@, w(TRUE))])
  /\ UNCHANGED <<configVars, idx, acc, ret, fs, conns, otherVars>>

\* conn.Write(command) with command = "get-all"
V3WriteCommand(p) ==
  /\ pc[p] = "v3_wcmd"
  /\ LET w(ok) == Wire("write", "unix", GetAll, 0, 0, ok)
     IN  \/ FailWith(p, "write", w(FALSE), "v3_ret")
         \/ Goto(p, "v3_rstatus", [loc[p] EXCEPT !.wire = Append(@, w(TRUE))])
  /\ UNCHANGED <<configVars, idx, acc, ret, fs, conns, otherVars>>

\* the counts conn.Read may deliver from a stream into a buffer of cap
\* bytes: at least one byte and at most what the peer still sends
StreamReads(l, cap) == 1..Min(cap, Len(l.stream))

\* conn.Read(status) with 4 bytes of room: an error (end of stream, the
\* deadline), or some of the bytes the peer sent
V3ReadStatus(p) ==
  /\ pc[p] = "v3_rstatus"
  /\ LET l == loc[p]
         w(got, ok) == Wire("read", "unix", got, 4, Len(got), ok)
     IN  \/ FailWith(p, "read", w(<<>>, FALSE), "v3_ret")
         \/ \E n \in StreamReads(l, 4) :
              LET m == [l EXCEPT !.stream = Drop(@, n),
                                 !.wire = Append(@, w(Take(l.stream, n), TRUE))]
              IN  IF NothingRead(n)
                  THEN Goto(p, "v3_ret", [m EXCEPT !.err = "no status code received"])
                  ELSE Goto(p, "v3_rlen", m)
  /\ UNCHANGED <<configVars, idx, acc, ret, fs, conns, otherVars>>

\* readNativeUIntFromConn(conn), then the check of responseLength
V3ReadLength(p) ==
  /\ pc[p] = "v3_rlen"
  /\ LET l == loc[p]
         w(got, ok) == Wire("read", "unix", got, uintSizeInBytes, Len(got), ok)
     IN  \/ FailWith(p, "read", w(<<>>, FALSE), "v3_ret")
         \/ \E n \in StreamReads(l, uintSizeInBytes) :
              LET r == readNativeUInt(Take(l.stream, n))
                  m == [l EXCEPT !.stream = Drop(@, n),
                                 !.wire = Append(@, w(Take(l.stream, n), TRUE))]
              IN  IF r.err # ""
                  THEN Goto(p, "v3_ret", [m EXCEPT !.err = r.err])
                  ELSE IF EmptyResponse(r.value)
                  THEN Goto(p, "v3_ret", [m EXCEPT !.err = "received data length was 0"])
                  ELSE Goto(p, "v3_rdata", [m EXCEPT !.responseLength = r.value])
  /\ UNCHANGED <<configVars, idx, acc, ret, fs, conns, otherVars>>

\* conn.Read(data) with responseLength bytes of room, then lines 67-78: a
\* count other than responseLength is an error; otherwise the data is
\* decoded and the map is given to the accumulator
V3ReadData(p) ==
  /\ pc[p] = "v3_rdata"
  /\ LET l == loc[p]
         w(got, ok) == Wire("read", "unix", got, l.responseLength, Len(got), ok)
     IN  \/ /\ FailWith(p, "read", w(<<>>, FALSE), "v3_ret")
            /\ acc' = acc
         \/ \E n \in StreamReads(l, l.responseLength) :
              LET data == Take(l.stream, n)
                  m == [l EXCEPT !.stream = Drop(@, n), !.n = n,
                                 !.wire = Append(@, w(data, TRUE))]
              IN  IF IncompleteResponse(n, l.responseLength)
                  THEN /\ Goto(p, "v3_ret", [m EXCEPT !.err = "no data received, expected"])
                       /\ acc' = acc
                  ELSE /\ Goto(p, "v3_close", m)
                       /\ acc' = [acc EXCEPT ![p] =
                            Append(@, FieldsEvent(idx[p], l.address,
                                                  parseResponseCommons(data).values))]
  /\ UNCHANGED <<configVars, idx, ret, fs, conns, otherVars>>

\* return conn.Close()
V3Close(p) ==
  /\ pc[p] = "v3_close"
  /\ conns' = conns \ {loc[p].conn}
  /\ \E e \in {"", "close"} : Goto(p, "v3_ret", [loc[p] EXCEPT !.err = e])
  /\ UNCHANGED <<configVars, idx, acc, ret, fs, otherVars>>

\* gatherFromV3Server returns to its caller after the deferred conn.Close()
ReturnV3(p) ==
  /\ pc[p] = "v3_ret"
  /\ RunDefers(loc[p])
  /\ Returned(p, loc[p].err)
  /\ UNCHANGED <<configVars, otherVars>>

(***************************************************************************)
(* Specifications                                                          *)
(***************************************************************************)

(***************************************************************************)
(* Decoder runs: parseResponse applied to texts built from lines           *)
(***************************************************************************)

Names == {ChA, ChB}

\* decimal texts ParseInt accepts, each with the integer it denotes
GoodValues ==
  { [text |-> Ch1, val |-> 1], [text |-> Ch2, val |-> 2],
    [text |-> ChMinus \o Ch1, val |-> 0 - 1], [text |-> ChPlus \o Ch2, val |-> 2],
    [text |-> <<48>> \o Ch1, val |-> 1], [text |-> Ch1 \o Ch2, val |-> 12] }

\* texts ParseInt rejects: "", "-", "NaN", "1a" and 2^63
BadValues ==
  { <<>>, ChMinus, <<78, 97, 78>>, Ch1 \o ChA,
    <<57,50,50,51,51,55,50,48,51,54,56,53,52,55,55,53,56,48,56>> }

\* a line of the text, without its line break: name<TAB>integer (good),
\* name<TAB>something else (bad), no tab at all (notab), or three fields
\* (extra)
GoodLines ==
  { [kind |-> "good", text |-> n \o <<Tab>> \o v.text, name |-> n, val |-> v.val] :
      n \in Names, v \in GoodValues }
BadLines ==
  { [kind |-> "bad", text |-> n \o <<Tab>> \o v, name |-> n, val |-> 0] :
      n \in Names, v \in BadValues }
NoTabLines ==
  { [kind |-> "notab", text |-> t, name |-> t, val |-> 0] : t \in {<<>>, ChA \o ChB} }
ExtraLines ==
  { [kind |-> "extra", text |-> ChA \o <<Tab>> \o v[1] \o <<Tab>> \o v[2],
     name |-> ChA, val |-> 0] :
      v \in {<<Ch1, Ch2>>, <<Ch1, ChA>>, <<ChA, Ch1>>} }
Lines == GoodLines \cup BadLines \cup NoTabLines \cup ExtraLines

\* what may follow the last line break: nothing, an unterminated line, or
\* zero bytes
Tails == {<<>>, ChB \o <<Tab>> \o Ch2, <<0, 0>>}

RECURSIVE SeqsUpTo(_, _)
SeqsUpTo(S, n) ==
  IF n = 0 THEN {<<>>}
  ELSE LET shorter == SeqsUpTo(S, n - 1)
       IN  shorter \cup {Append(q, x) : q \in {r \in shorter : Len(r) = n - 1}, x \in S}

\* the text of a decoder input: every line followed by a line break, then
\* the tail
RECURSIVE JoinLines(_)
JoinLines(ls) ==
  IF ls = <<>> THEN <<>> ELSE Head(ls).text \o <<Newline>> \o JoinLines(Tail(ls))

InputText(in) == JoinLines(in.lines) \o in.tail

NotRun == [copy |-> "none", values |-> EmptyMap, diags |-> <<>>]

DecoderIdle == dIn = [lines |-> <<>>, tail |-> <<>>] /\ dOut = NotRun

InitDecoder ==
  /\ dIn \in [lines : SeqsUpTo(Lines, MaxLines), tail : Tails]
  /\ dOut = NotRun

\* parseResponse of powerdns_recursor.go runs on the text
DecodeRecursor ==
  /\ dOut.copy = "none"
  /\ LET r == parseResponse(InputText(dIn))
     IN  dOut' = [copy |-> "recursor", values |-> r.values, diags |-> r.diags]
  /\ UNCHANGED <<dIn, platformVars, driverVars, codecVars>>

\* parseResponse of protocol_commons.go runs on the text
DecodeCommons ==
  /\ dOut.copy = "none"
  /\ LET r == parseResponseCommons(InputText(dIn))
     IN  dOut' = [copy |-> "commons", values |-> r.values, diags |-> r.diags]
  /\ UNCHANGED <<dIn, platformVars, driverVars, codecVars>>

NextDecoder == DecodeRecursor \/ DecodeCommons

\* one caller: a Gather call over any configuration, or a direct call of
\* gatherFromV3Server, on any platform
Init ==
  /\ InitPlatform
  /\ InitDrivers({1}, SocketLists(MaxTargets), BOOLEAN)
  /\ DecoderIdle
  /\ CodecIdle

Next ==
  \E p \in Procs :
    \/ Gather(p)
    \/ PickSocket(p)
    \/ DialUnix(p)
    \/ Chmod(p)
    \/ SetDeadline(p)
    \/ WriteStatus(p)
    \/ WriteCommand(p)
    \/ ReadStatus(p)
    \/ ReadData(p)
    \/ Close(p)
    \/ ReturnLegacy(p)
    \/ CallV3(p)
    \/ V3Dial(p)
    \/ V3SetDeadline(p)
    \/ V3WriteStatus(p)
    \/ V3WriteLength(p)
    \/ V3WriteCommand(p)
    \/ V3ReadStatus(p)
    \/ V3ReadLength(p)
    \/ V3ReadData(p)
    \/ V3Close(p)
    \/ ReturnV3(p)

Spec == Init /\ [][Next]_vars

\* NProcs callers (plugin instances or processes sharing the socket
\* directory) run Gather at the same time over two configured sockets
InitConcurrent ==
  /\ uintSizeInBytes = 8 /\ littleEndian = TRUE
  /\ InitDrivers(1..NProcs, {<<1, 2>>}, {FALSE})
  /\ DecoderIdle
  /\ CodecIdle

NextConcurrent ==
  \E p \in Procs :
    \/ Gather(p)
    \/ PickSocket(p)
    \/ DialUnix(p)
    \/ Chmod(p)
    \/ SetDeadline(p)
    \/ WriteCommand(p)
    \/ ReadData(p)
    \/ Close(p)
    \/ ReturnLegacy(p)

SpecConcurrent == InitConcurrent /\ [][NextConcurrent]_vars

\* parseResponse, both copies, on texts built from lines
InitDecoderRun ==
  /\ uintSizeInBytes = 8 /\ littleEndian = TRUE
  /\ InitDrivers({1}, {<<>>}, {FALSE})
  /\ InitDecoder
  /\ CodecIdle

SpecDecoder == InitDecoderRun /\ [][NextDecoder]_vars

\* the codec on every platform
InitCodecRun ==
  /\ InitPlatform
  /\ InitDrivers({1}, {<<>>}, {FALSE})
  /\ DecoderIdle
  /\ InitCodec

SpecCodec == InitCodecRun /\ [][NextCodec]_vars

(***************************************************************************)
(* Properties                                                              *)
(***************************************************************************)

\* the events of kind `kind` that call k of caller p gave to the accumulator
Events(p, kind, k) ==
  {i \in 1..Len(acc[p]) : acc[p][i].kind = kind /\ acc[p][i].call = k}

\* caller p ran Gather's loop to its end
LoopDone(p) == pc[p] = "done" /\ idx[p] >= 1

\* C1, in every state: a driver call of Gather's loop queries the socket at
\* the loop's index; and after the loop, the loop has reached the last
\* configured socket, the events are in the order of the configuration,
\* every socket has an error or a record (or a record followed by the error
\* of closing), at most one of each, and every record carries the tag of
\* its own socket.
C1_AfterLoop ==
  \A p \in Procs :
    /\ loc[p].caller = "loop" =>
         /\ idx[p] \in 1..Len(UnixSockets)
         /\ loc[p].address = UnixSockets[idx[p]]
    /\ LoopDone(p) =>
         /\ idx[p] = Len(UnixSockets)
         /\ ret[p] = "nil"
         /\ \A i, j \in 1..Len(acc[p]) : i < j => acc[p][i].call <= acc[p][j].call
         /\ \A k \in 1..Len(UnixSockets) :
              /\ Cardinality(Events(p, "error", k)) <= 1
              /\ Cardinality(Events(p, "fields", k)) <= 1
              /\ Events(p, "error", k) \cup Events(p, "fields", k) # {}
              /\ \A i \in Events(p, "fields", k) : acc[p][i].server = UnixSockets[k]

\* C1, in every step in which a driver call of Gather's loop returns: a
\* call that failed adds exactly one error, its own, to the accumulator; a
\* call that succeeded adds none and has given exactly one record; and
\* whatever the result, the next configured socket is queried next.
C1_OnReturn ==
  \A p \in Procs :
    (pc[p] \in {"gs_ret", "v3_ret"} /\ loc[p].caller = "loop" /\ pc'[p] # pc[p]) =>
      LET k == idx[p]
          e == loc[p].err
      IN  /\ e # "" => acc'[p] = Append(acc[p], ErrorEvent(k, e))
          /\ e = "" => /\ acc'[p] = acc[p]
                       /\ Events(p, "error", k) = {}
                       /\ Cardinality(Events(p, "fields", k)) = 1
          /\ k < Len(UnixSockets) =>
               /\ pc'[p] = "gs_start"
               /\ idx'[p] = k + 1
               /\ loc'[p].address = UnixSockets[k + 1]
          /\ k = Len(UnixSockets) => pc'[p] = "done"

\* C1: one Gather call over a non-empty list of sockets queries every
\* socket in order; a failing socket gives exactly one error, a succeeding
\* socket exactly one record tagged with its path, and no failure keeps a
\* later socket from being queried.
C1_Theorem == []C1_AfterLoop /\ [][C1_OnReturn]_vars

\* three sockets, the second one failing: two records and one error
C1_Witness ==
  /\ LoopDone(1)
  /\ Len(UnixSockets) = 3
  /\ Len(acc[1]) = 3
  /\ acc[1][1].kind = "fields" /\ acc[1][1].server = 1
  /\ acc[1][2].kind = "error" /\ acc[1][2].call = 2
  /\ acc[1][3].kind = "fields" /\ acc[1][3].server = 3

\* the operations of a wire, by kind
WireOps(w, op) == SelectSeq(w, LAMBDA x : x.op = op)
WrittenBytes(w) == [i \in 1..Len(WireOps(w, "write")) |-> WireOps(w, "write")[i].bytes]
ReadCaps(w) == [i \in 1..Len(WireOps(w, "read")) |-> WireOps(w, "read")[i].cap]

\* a driver call that Gather made has given its record to the accumulator
GatherForwarded(p) ==
  /\ loc[p].caller \in {"loop", "default"}
  /\ pc[p] \in {"gs_close", "v3_close"}

\* C2: Gather selects the driver by the protocol flag: with the new
\* protocol the exchange is on a stream socket, the request is 4 zero
\* bytes, the native length of the command and "get-all", and the response
\* is read as a status of 4 bytes, a native length and a body of that
\* length; with the old protocol the exchange is on a datagram socket and
\* the request is "get-all\n".
C2_Claim ==
  \A p \in Procs :
    GatherForwarded(p) =>
      LET w == loc[p].wire
      IN  IF NewControlProtocol
          THEN /\ w[1].op = "dial" /\ w[1].net = "unix"
               /\ WrittenBytes(w) =
                    << <<0, 0, 0, 0>>,
                       PutUint(getEndianness, uintSizeInBytes, Len(GetAll)),
                       GetAll >>
               /\ Len(ReadCaps(w)) = 3
               /\ ReadCaps(w)[1] = 4
               /\ ReadCaps(w)[2] = uintSizeInBytes
               /\ ReadCaps(w)[3] = loc[p].responseLength
          ELSE /\ w[1].op = "dial" /\ w[1].net = "unixgram"
               /\ WrittenBytes(w) = << GetAllNewline >>

\* caller p is not inside a driver call
Outside(p) == pc[p] \in {"off", "idle", "gs_start", "done"}

\* C3: once gatherServer has created the path of its receive socket, the
\* path no longer exists when the call has returned, whatever the exit:
\* with one caller, no path exists whenever the caller is outside a call.
C3_Theorem ==
  Outside(1) => \A x \in Paths : fs[x] = NoSocket

\* a Gather call whose three driver calls created the path and then left
\* by a failed chmod, a failed read and a read of no byte
C3_Witness ==
  /\ LoopDone(1)
  /\ Len(acc[1]) = 3
  /\ acc[1][1].err = "chmod"
  /\ acc[1][2].err = "read"
  /\ acc[1][3].err = "no data received"

\* caller p holds an open receive socket bound to the path it drew
Bound(p) ==
  /\ loc[p].driver = "legacy"
  /\ loc[p].conn # NoSocket
  /\ loc[p].conn \in conns

\* C4: no two exchanges of gatherServer that are in flight at the same time
\* use the same path for their receive sockets.
C4_Claim ==
  \A p, q \in Procs :
    (p # q /\ Bound(p) /\ Bound(q)) => loc[p].recvSocket # loc[q].recvSocket

\* the reads of the call that caller p is running
Reads(p) == WireOps(loc[p].wire, "read")

\* in every step in which the driver call of p returns, the error it leaves
\* with is what its caller gets: Gather's loop reports it, the other
\* callers return it
ErrorReturned(p) ==
  (pc[p] \in {"gs_ret", "v3_ret"} /\ pc'[p] # pc[p] /\ loc[p].err # "") =>
    IF loc[p].caller = "loop"
    THEN acc'[p] = Append(acc[p], ErrorEvent(idx[p], loc[p].err))
    ELSE ret'[p] = loc[p].err /\ acc'[p] = acc[p]

\* gatherFromV3Server read a body of fewer bytes than the declared length
ShortBody(p) ==
  /\ loc[p].driver = "v3"
  /\ Len(Reads(p)) = 3
  /\ Reads(p)[3].ok
  /\ Reads(p)[3].n # loc[p].responseLength

C5_NoDecode ==
  \A p \in Procs :
    ShortBody(p) =>
      /\ pc[p] = "v3_ret"
      /\ loc[p].err = "no data received, expected"
      /\ acc[p] = <<>>

C5_Returns == \A p \in Procs : ShortBody(p) => ErrorReturned(p)

\* C5: when gatherFromV3Server reads a number of body bytes other than the
\* declared length, the call returns an error and nothing is decoded or
\* given to the accumulator.
C5_Theorem == []C5_NoDecode /\ [][C5_Returns]_vars

\* the peer declared 4 bytes and the read delivered fewer
C5_Witness ==
  /\ ShortBody(1)
  /\ loc[1].responseLength = 4
  /\ Reads(1)[3].n \in 1..3

\* gatherFromV3Server read a complete length field whose bytes are all zero
ZeroLength(p) ==
  /\ loc[p].driver = "v3"
  /\ Len(Reads(p)) >= 2
  /\ Reads(p)[2].ok
  /\ Reads(p)[2].n = uintSizeInBytes
  /\ \A i \in 1..Reads(p)[2].n : Reads(p)[2].bytes[i] = 0

C6_NoBody ==
  \A p \in Procs :
    ZeroLength(p) =>
      /\ pc[p] = "v3_ret"
      /\ loc[p].err = "received data length was 0"
      /\ Len(Reads(p)) = 2
      /\ acc[p] = <<>>

C6_Returns == \A p \in Procs : ZeroLength(p) => ErrorReturned(p)

\* C6: in gatherFromV3Server a decoded response length of 0 makes the call
\* fail with the error of an empty response before any read of a body, and
\* nothing is given to the accumulator.
C6_Theorem == []C6_NoBody /\ [][C6_Returns]_vars

C6_Witness == ZeroLength(1) /\ loc[1].stream = <<>>

\* the place of the data read among the reads of gatherServer
DataRead(p) == IF loc[p].newProtocol THEN 2 ELSE 1

\* gatherServer has read its reply, and the read delivered n bytes
ReplyRead(p, n) ==
  /\ loc[p].driver = "legacy"
  /\ Len(Reads(p)) >= DataRead(p)
  /\ Reads(p)[DataRead(p)].ok
  /\ Reads(p)[DataRead(p)].n = n

C7_NoData ==
  \A p \in Procs :
    /\ ReplyRead(p, 0) =>
         /\ pc[p] = "gs_ret"
         /\ loc[p].err = "no data received"
         /\ Events(p, "fields", idx[p]) = {}
    /\ (loc[p].driver = "legacy" /\ Events(p, "fields", idx[p]) # {}) =>
         \E n \in 1..BufLen : ReplyRead(p, n)

C7_Returns == \A p \in Procs : ReplyRead(p, 0) => ErrorReturned(p)

\* C7: in gatherServer a reply read of no byte makes the call fail with the
\* error of no data and gives nothing to the accumulator; a record is given
\* only after a read of at least one byte.
C7_Theorem == []C7_NoData /\ [][C7_Returns]_vars

\* the second configured socket answered with an empty datagram
C7_Witness ==
  /\ ReplyRead(1, 0)
  /\ idx[1] = 2
  /\ Len(acc[1]) = 1 /\ acc[1][1].kind = "fields"

\* a text made only of terminated lines name<TAB>integer
GoodInput(in) ==
  /\ in.tail = <<>>
  /\ \A i \in 1..Len(in.lines) : in.lines[i].kind = "good"

\* the map from every name of the lines ls to the integer of its last line
LastOf(ls, n) ==
  CHOOSE i \in 1..Len(ls) :
    ls[i].name = n /\ \A j \in 1..Len(ls) : (ls[j].name = n => j <= i)
LastWins(ls) ==
  [n \in {ls[i].name : i \in 1..Len(ls)} |-> ls[LastOf(ls, n)].val]

\* C8: for a text made of terminated lines name<TAB>integer, parseResponse
\* returns exactly the map from each name to the integer of its last line.
C8_Theorem ==
  (dOut.copy # "none" /\ GoodInput(dIn)) => dOut.values = LastWins(dIn.lines)

\* a name that occurs twice, with two different integers
C8_Witness ==
  /\ dOut.copy # "none"
  /\ GoodInput(dIn)
  /\ Len(dIn.lines) = 2
  /\ dIn.lines[1].name = dIn.lines[2].name
  /\ dIn.lines[1].val # dIn.lines[2].val
  /\ dOut.values = [n \in {dIn.lines[2].name} |-> dIn.lines[2].val]

\* the lines of ls of one kind
OfKind(ls, kind) == SelectSeq(ls, LAMBDA x : x.kind = kind)

\* a text whose lines have at most one tab each
PlainInput(in) ==
  \A i \in 1..Len(in.lines) : in.lines[i].kind \in {"good", "bad", "notab"}

\* C9: parseResponse never fails as a whole: a line with no tab or with a
\* value that does not parse gives no key, every terminated line
\* name<TAB>integer of the same text still gives its entry, and one
\* diagnostic is recorded for each line skipped because its value did not
\* parse.
C9_Claim ==
  (dOut.copy # "none" /\ PlainInput(dIn)) =>
    /\ dOut.values = LastWins(OfKind(dIn.lines, "good"))
    /\ Len(dOut.diags) = Len(OfKind(dIn.lines, "bad"))

\* C10: a length read back from the bytes writeNativeUIntToConn wrote is
\* the length written, on builds of 4 and of 8 bytes and in both byte
\* orders, and the bytes written are as many as the build's width.
C10_Theorem ==
  /\ cConn.written => Len(cConn.sent) = uintSizeInBytes
  /\ (cOut.done /\ cOut.n = uintSizeInBytes) => (cOut.err = "" /\ cOut.value = cIn)

\* a length of three significant bytes read back on a big-endian build of
\* 8 bytes
C10_Witness ==
  /\ cOut.done /\ cOut.err = ""
  /\ cIn = 65536
  /\ uintSizeInBytes = 8 /\ ~littleEndian
  /\ cConn.sent = <<0, 0, 0, 0, 0, 1, 0, 0>>

\* the writes among the first k operations of a wire
WritesBefore(w, k) == WireOps(SubSeq(w, 1, k - 1), "write")

\* the length 7 in the host's width and byte order
NativeSeven ==
  IF littleEndian THEN <<7>> \o Zeros(uintSizeInBytes - 1)
  ELSE Zeros(uintSizeInBytes - 1) \o <<7>>

\* the request of the stream protocol: the status, the length, "get-all"
V3Request == << <<0, 0, 0, 0>>, NativeSeven, <<103, 101, 116, 45, 97, 108, 108>> >>

\* C11: gatherFromV3Server writes 4 zero bytes, then the native length 7,
\* then the 7 bytes "get-all", in this order and nothing else; every read
\* comes after the three writes have succeeded; a failed write is the last
\* operation of the call; and a connection carries no second request.
C11_Theorem ==
  \A p \in Procs :
    loc[p].driver = "v3" =>
      LET w == loc[p].wire
          writes == WireOps(w, "write")
      IN  /\ Len(WireOps(w, "dial")) <= 1
          /\ Len(writes) <= 3
          /\ \A i \in 1..Len(writes) : writes[i].bytes = V3Request[i]
          /\ \A i \in 1..Len(w) :
               /\ (w[i].op = "write" /\ ~w[i].ok) => (i = Len(w) /\ pc[p] = "v3_ret")
               /\ w[i].op = "read" =>
                    /\ Len(WritesBefore(w, i)) = 3
                    /\ \A j \in 1..3 : WritesBefore(w, i)[j].ok
          /\ pc[p] \in {"v3_rstatus", "v3_rlen", "v3_rdata", "v3_close"} =>
               Len(writes) = 3

\* a call on a big-endian build of 8 bytes that wrote its request, read a
\* response and gave a record
C11_Witness ==
  /\ pc[1] = "v3_close"
  /\ uintSizeInBytes = 8 /\ ~littleEndian
  /\ WrittenBytes(loc[1].wire) =
       << <<0, 0, 0, 0>>, <<0, 0, 0, 0, 0, 0, 0, 7>>, <<103, 101, 116, 45, 97, 108, 108>> >>
  /\ Len(Reads(1)) = 3
  /\ Len(acc[1]) = 1

\* caller p runs gatherServer for a socket of the old protocol
LegacyExchange(p) == loc[p].driver = "legacy" /\ ~loc[p].newProtocol

\* operation i of the wire w failed, or was a read of no byte
Failure(w, i) == ~w[i].ok \/ (w[i].op = "read" /\ w[i].n = 0)

\* C12: one call of gatherServer with the old protocol sends one datagram,
\* the 8 bytes "get-all\n", and reads at most one reply datagram; a failed
\* dial, deadline, write or read and a read of no byte is the last
\* operation of the call, and a failed chmod is followed by none.
C12_Theorem ==
  \A p \in Procs :
    LegacyExchange(p) =>
      LET w == loc[p].wire
          writes == WireOps(w, "write")
      IN  /\ Len(WireOps(w, "dial")) <= 1
          /\ Len(writes) <= 1
          /\ Len(Reads(p)) <= 1
          /\ \A i \in 1..Len(writes) :
               /\ writes[i].net = "unixgram"
               /\ writes[i].bytes = <<103, 101, 116, 45, 97, 108, 108, 10>>
          /\ \A i \in 1..Len(w) :
               /\ Failure(w, i) => (i = Len(w) /\ pc[p] = "gs_ret" /\ loc[p].err # "")
               /\ w[i].op = "read" =>
                    (Len(WritesBefore(w, i)) = 1 /\ WritesBefore(w, i)[1].ok)
          /\ loc[p].err = "chmod" => (writes = <<>> /\ Reads(p) = <<>>)
          /\ pc[p] = "gs_close" => (Len(writes) = 1 /\ Len(Reads(p)) = 1)

\* a call that sent the command and whose read then failed
C12_Witness ==
  /\ LegacyExchange(1)
  /\ pc[1] = "gs_ret"
  /\ loc[1].err = "read"
  /\ WrittenBytes(loc[1].wire) = << <<103, 101, 116, 45, 97, 108, 108, 10>> >>
  /\ Len(Reads(1)) = 1 /\ ~Reads(1)[1].ok

\* a deadline was set on the wire w before its operation i
DeadlineBefore(w, i) == \E j \in 1..(i - 1) : w[j].op = "deadline" /\ w[j].ok

\* C13: in both drivers one deadline is set per call, it is in force before
\* the dial and before every write and read, and it is never set again.
C13_Claim ==
  \A p \in Procs :
    LET w == loc[p].wire
    IN  /\ Len(WireOps(w, "deadline")) <= 1
        /\ \A i \in 1..Len(w) :
             w[i].op \in {"dial", "write", "read"} => DeadlineBefore(w, i)

\* a driver call that Gather made for caller p returns with an error
GatherCallFails(p) ==
  /\ pc[p] \in {"gs_ret", "v3_ret"}
  /\ pc'[p] # pc[p]
  /\ loc[p].caller \in {"loop", "default"}
  /\ loc[p].err # ""

C14_OnReturn ==
  \A p \in Procs :
    GatherCallFails(p) =>
      /\ acc'[p] = Append(acc[p], ErrorEvent(idx[p], loc[p].err))
      /\ ret'[p] \in {"pending", "nil"}

\* C14: in every step in which a driver call made by Gather returns an
\* error, for a configured socket or for the default socket, the error is
\* given to the accumulator as one error event and Gather does not return
\* it.
C14_Claim == [][C14_OnReturn]_vars

\* the bytes of the reads rs, in the order they were read
RECURSIVE ReadBytes(_)
ReadBytes(rs) == IF rs = <<>> THEN <<>> ELSE Head(rs).bytes \o ReadBytes(Tail(rs))

\* everything the peer of caller p sends on the connection: what the call
\* has read and what it has not read yet
PeerSent(p) == ReadBytes(Reads(p)) \o loc[p].stream

\* the status read of gatherFromV3Server delivered some bytes
StatusRead(p) ==
  /\ loc[p].driver = "v3"
  /\ Len(Reads(p)) >= 1
  /\ Reads(p)[1].ok

\* C15: gatherFromV3Server reads 4 bytes of status before the length: a
\* length it decodes is the value of the native-width bytes that follow the
\* first 4 bytes of the stream, and after a status read of fewer than 4
\* bytes no length is decoded, no body is read and no record is given.
C15_Claim ==
  \A p \in Procs :
    StatusRead(p) =>
      /\ loc[p].responseLength # 0 =>
           /\ Len(PeerSent(p)) >= 4 + uintSizeInBytes
           /\ loc[p].responseLength =
                Uint(getEndianness, SubSeq(PeerSent(p), 5, 4 + uintSizeInBytes))
      /\ Reads(p)[1].n < 4 =>
           /\ loc[p].responseLength = 0
           /\ Len(Reads(p)) <= 2
           /\ acc[p] = <<>>

\* a line cut at its first tab: the name before it and the whole remainder
\* after it
HasTab(t) == \E i \in 1..Len(t) : t[i] = Tab
FirstTab(t) == CHOOSE i \in 1..Len(t) : t[i] = Tab /\ \A j \in 1..(i - 1) : t[j] # Tab
NameOf(t) == SubSeq(t, 1, FirstTab(t) - 1)
RemainderOf(t) == SubSeq(t, FirstTab(t) + 1, Len(t))

\* the lines of ls whose remainder after the first tab is a signed 64-bit
\* decimal, and the map from each of their names to the integer of its last
\* such line
Entries(ls) ==
  {i \in 1..Len(ls) : HasTab(ls[i].text) /\ ParseInt(RemainderOf(ls[i].text)).ok}
LastEntry(ls, n) ==
  CHOOSE i \in Entries(ls) :
    NameOf(ls[i].text) = n /\ \A j \in Entries(ls) : (NameOf(ls[j].text) = n => j <= i)
FirstTabMap(ls) ==
  [n \in {NameOf(ls[i].text) : i \in Entries(ls)} |->
     ParseInt(RemainderOf(ls[LastEntry(ls, n)].text)).val]

\* C16: parseResponse cuts each line at its first tab into the name and the
\* whole remainder and parses the whole remainder: a line whose remainder is
\* not a signed 64-bit decimal, as in "a\t1\t2", gives no entry.
C16_Claim ==
  dOut.copy # "none" => dOut.values = FirstTabMap(dIn.lines)

\* s is a complete response of the stream protocol: 4 bytes of status, a
\* native length L > 0 and exactly L more bytes
DeclaredLength(s) == Uint(getEndianness, SubSeq(s, 5, 4 + uintSizeInBytes))
WellFormed(s) ==
  /\ Len(s) >= 4 + uintSizeInBytes
  /\ DeclaredLength(s) > 0
  /\ Len(s) = 4 + uintSizeInBytes + DeclaredLength(s)
BodyOf(s) == SubSeq(s, 4 + uintSizeInBytes + 1, Len(s))

\* the call of gatherFromV3Server of caller p is over, no operation on its
\* socket failed, and its peer sent a complete response
Answered(p) ==
  /\ loc[p].driver = "v3"
  /\ pc[p] = "v3_ret"
  /\ \A i \in 1..Len(loc[p].wire) : loc[p].wire[i].ok
  /\ WellFormed(PeerSent(p))

\* C17: when the peer sends a complete response and no operation fails,
\* gatherFromV3Server gives the decode of the whole body to the
\* accumulator and returns no error of the protocol, in whatever pieces the
\* stream delivers the bytes to the reads.
C17_Claim ==
  \A p \in Procs :
    Answered(p) =>
      /\ loc[p].err \in {"", "close"}
      /\ Len(acc[p]) = 1
      /\ acc[p][1].kind = "fields"
      /\ acc[p][1].fields = parseResponseCommons(BodyOf(PeerSent(p))).values

\* the sockets that calls of caller p opened and that are still open
OpenOf(p) == {c \in conns : c[1] = p}

\* C18: a connection that a driver call opened is closed when the call has
\* returned, on every exit of both drivers: a caller that is outside a call
\* has no open socket.
C18_Claim ==
  \A p \in Procs : Outside(p) => OpenOf(p) = {}

\* a driver call that Gather made for caller p is about to return
GatherCallOver(p) ==
  /\ pc[p] \in {"gs_ret", "v3_ret"}
  /\ loc[p].caller \in {"loop", "default"}

\* C19: every socket queried in one Gather call gives the accumulator one
\* outcome, a record or an error and never both: a driver call returns an
\* error exactly when it has given no record, and after the loop every
\* configured socket has exactly one event.
C19_Claim ==
  \A p \in Procs :
    /\ GatherCallOver(p) =>
         (loc[p].err = "" <=> Events(p, "fields", idx[p]) # {})
    /\ LoopDone(p) =>
         \A k \in 1..Len(UnixSockets) :
           Cardinality(Events(p, "fields", k) \cup Events(p, "error", k)) = 1

\* the number of line breaks in the bytes b
LineBreaks(b) == Cardinality({i \in 1..Len(b) : b[i] = Newline})

\* gatherServer has given the record of its running call to the accumulator
Forwarded(p) ==
  /\ loc[p].driver = "legacy"
  /\ pc[p] \in {"gs_close", "gs_ret"}
  /\ Events(p, "fields", idx[p]) # {}

\* the fields of that record and the bytes the reply read delivered, which
\* are the first min(n, BufLen) bytes of the reply datagram
ForwardedFields(p) ==
  acc[p][CHOOSE i \in Events(p, "fields", idx[p]) : TRUE].fields
ReceivedBytes(p) == Reads(p)[DataRead(p)].bytes

\* C20: the fields gatherServer forwards are the decode of the bytes of the
\* reply that the read delivered, at most BufLen of them, although the
\* whole zero-padded buffer is decoded: every entry comes from a line that
\* ends in a line break within those bytes, so that neither the padding nor
\* a line cut by the buffer nor an unterminated last line gives an entry.
C20_Theorem ==
  \A p \in Procs :
    Forwarded(p) =>
      /\ Len(ReceivedBytes(p)) = loc[p].n
      /\ loc[p].n \in 1..BufLen
      /\ ForwardedFields(p) = parseResponse(ReceivedBytes(p)).values
      /\ Cardinality(DOMAIN ForwardedFields(p)) <= LineBreaks(ReceivedBytes(p))

\* a reply longer than the buffer whose second line was cut: the record has
\* the entry of the first line only
C20_Witness ==
  /\ Forwarded(1)
  /\ loc[1].n = BufLen
  /\ ReceivedBytes(1)[BufLen] # Newline
  /\ SubSeq(ReceivedBytes(1), 1, 7) = LineA1 \o ChB \o <<Tab>> \o Ch2
  /\ ForwardedFields(1) = [x \in {ChA} |-> 1]

====
